---------------------------- MODULE Spec2Model ----------------------------
(***************************************************************************)
(* Models of the programs of the repository.                               *)
(*                                                                         *)
(* Spec: the Greibach Normal Form construction of                          *)
(* src/GreibachNormalForm/GNF_Example.cpp: a caller builds a Grammar, a    *)
(* GNFConverter is constructed from it and run() rewrites it in place      *)
(* (ordering, forward substitution with left-recursion elimination, back   *)
(* substitution).  A Symbol is a record [name, type, index].  A name is    *)
(* the sequence of the character codes of the std::string, so that         *)
(* std::string's operator< (lexicographic by character) can be computed.   *)
(*                                                                         *)
(* SpecAnBnCn: the LBA of src/LinearBoundedAutomaton/LBA_Example.cpp.      *)
(* SpecCopy: the LBA of src/LinearBoundedAutomaton/LBA_Copy_Language.cpp.  *)
(* SpecPDA: main of src/CFG_AND_PDA_Equivalence/                           *)
(* CFG-PDA_Equivalence_Example.cpp with simulatePDA and parseCFG.          *)
(*                                                                         *)
(* Each specification runs one program; the variables of the other         *)
(* programs keep their idle values.                                        *)
(***************************************************************************)
EXTENDS Integers, Sequences, FiniteSets, TLC

VARIABLES
    grammar,            \* GNFConverter::grammar (before construction: the caller's G)
    orderedVariables,   \* GNFConverter::orderedVariables
    zCounter,           \* GNFConverter::zCounter
    pc,                 \* position in main / run()
    i,                  \* loop index i of step3 / step5 (1-based)
    j,                  \* loop index j of step3 (1-based)
    zVars,              \* step5: the helper variables still to process
    input,              \* the grammar the converter was constructed from
    run,                \* number of the converter (1: first run, 2: re-run)
    rounds,             \* passes of the j-loop body of step3 made by this converter
    calls,              \* calls of substituteUntilTerminal made by this converter
    log,                \* the steps this converter has made, in order
    other               \* a second GNFConverter object (its members), or NoConverter

VARIABLES
    tape,               \* LBA::tape, a sequence of characters
    head,               \* LBA::head (0-based; Len(tape) is the position after the last character)
    currentState,       \* LBA::currentState
    test,               \* main: the string the machine was constructed from
    steps               \* iterations of the loop of LBA::run made so far

VARIABLES
    userInput,          \* main: userInput
    pda_result,         \* main: pda_result
    cfg_result,         \* main: cfg_result
    analysed            \* main: how many of the two calls of lines 89-90 have returned

gnfVars ==
    <<grammar, orderedVariables, zCounter, pc, i, j, zVars, input, run, rounds, calls, log, other>>

\* The members of a converter that was not constructed
NoConverter ==
    [grammar |-> <<>>, orderedVariables |-> <<>>, zCounter |-> 1,
     pc |-> "none", i |-> 0, j |-> 0, zVars |-> <<>>]

lbaVars == <<tape, head, currentState, test, steps>>

pdaVars == <<userInput, pda_result, cfg_result, analysed>>

vars == <<gnfVars, lbaVars, pdaVars>>

\* No converter and no grammar
GnfIdle ==
    /\ grammar = <<>>
    /\ input = <<>>
    /\ orderedVariables = <<>>
    /\ zCounter = 1
    /\ pc = "none"
    /\ i = 0
    /\ j = 0
    /\ zVars = <<>>
    /\ run = 0
    /\ rounds = 0
    /\ calls = 0
    /\ log = <<>>
    /\ other = NoConverter

\* No machine
LbaIdle ==
    /\ tape = <<>>
    /\ head = 0
    /\ currentState = "NONE"
    /\ test = <<>>
    /\ steps = 0

\* No string read
PdaIdle ==
    /\ userInput = <<>>
    /\ pda_result = FALSE
    /\ cfg_result = FALSE
    /\ analysed = 0

----------------------------------------------------------------------------
(* Bounds of the model *)

\* Size of a caller-built grammar: sum over its productions of 1 + |body|.
MaxSize == 5

\* Length of the terminal strings compared by the language claims.
K == 3

\* Number of converters run one after the other (the second on the first's output).
MaxRuns == 2

\* Size of the largest grammar a further converter is built from.
MaxRerunSize == 16

----------------------------------------------------------------------------
(* Symbols *)

Terminal(n) == [name |-> n, type |-> "TERMINAL", index |-> 0]
Variable(n, idx) == [name |-> n, type |-> "VARIABLE", index |-> idx]

\* enum SymbolType { TERMINAL, VARIABLE }: TERMINAL = 0 < VARIABLE = 1
TypeRank(t) == IF t = "TERMINAL" THEN 0 ELSE 1

\* std::string operator<: lexicographic comparison of the characters
RECURSIVE StrLess(_, _)
StrLess(s, t) ==
    IF t = <<>> THEN FALSE
    ELSE IF s = <<>> THEN TRUE
    ELSE IF Head(s) # Head(t) THEN Head(s) < Head(t)
    ELSE StrLess(Tail(s), Tail(t))

\* Symbol::operator<
SymLess(a, b) ==
    IF a.type # b.type THEN TypeRank(a.type) < TypeRank(b.type)
    ELSE IF a.name # b.name THEN StrLess(a.name, b.name)
    ELSE a.index < b.index

\* std::list<Symbol> operator<: lexicographic comparison with Symbol::operator<
RECURSIVE BodyLess(_, _)
BodyLess(x, y) ==
    IF y = <<>> THEN FALSE
    ELSE IF x = <<>> THEN TRUE
    ELSE IF SymLess(Head(x), Head(y)) THEN TRUE
    ELSE IF SymLess(Head(y), Head(x)) THEN FALSE
    ELSE BodyLess(Tail(x), Tail(y))

\* The symbols of main: names "A1" "A2" "A3" "a" "b"
A1 == Variable(<<65, 49>>, 1)
A2 == Variable(<<65, 50>>, 2)
A3 == Variable(<<65, 51>>, 3)
a == Terminal(<<97>>)
b == Terminal(<<98>>)

\* Further symbols of the input grammars: "c", "A", "B", "Z_A"
c == Terminal(<<99>>)
VarA == Variable(<<65>>, 1)
VarA2 == Variable(<<65>>, 2)
VarALate == Variable(<<65>>, 2000)
VarB1 == Variable(<<66>>, 1)
VarB == Variable(<<66>>, 2)
VarZA == Variable(<<90, 95, 65>>, 1001)

----------------------------------------------------------------------------
(* Grammars: a function from the key symbols to sets of production bodies  *)
(* (std::map<Symbol, std::set<std::list<Symbol>>>).                        *)

Keys(G) == DOMAIN G

\* Sum over the productions of 1 + |body|
RECURSIVE SumLen(_)
SumLen(bodies) ==
    IF bodies = {} THEN 0
    ELSE LET x == CHOOSE y \in bodies : TRUE
         IN  1 + Len(x) + SumLen(bodies \ {x})

RECURSIVE SizeOver(_, _)
SizeOver(G, ks) ==
    IF ks = {} THEN 0
    ELSE LET k == CHOOSE y \in ks : TRUE
         IN  SumLen(G[k]) + SizeOver(G, ks \ {k})

Size(G) == SizeOver(G, Keys(G))

\* The families of input grammars: the key symbols and the symbols the
\* bodies are built from.
Universes ==
    { [keys |-> {A1, A2},          pool |-> {A1, A2, a, b}],        \* two variables, two terminals
      [keys |-> {A1},              pool |-> {A1, VarB, c}],         \* B has no entry
      [keys |-> {VarA, VarZA},     pool |-> {VarA, VarZA, a}],      \* a variable named "Z_A", order 1001
      [keys |-> {VarZA, VarALate}, pool |-> {VarZA, VarALate, a}],  \* "Z_A" ordered before "A"
      [keys |-> {VarA},            pool |-> {VarA, VarZA, a}],      \* "Z_A" referenced, no entry
      [keys |-> {VarA, VarB1},     pool |-> {VarA, VarB1, a}],      \* duplicate order value 1
      [keys |-> {VarB1, VarA2},    pool |-> {VarB1, VarA2, a}] }    \* name order against order value

PoolFor(ks) == (CHOOSE u \in Universes : u.keys = ks).pool

BodiesUpTo(pool, n) == UNION { [1..k -> pool] : k \in 0..n }

\* main, lines 305-313: the worked example
ExampleGrammar ==
    (A1 :> { <<A2, A3>> }) @@
    (A2 :> { <<A3, A1>>, <<b>> }) @@
    (A3 :> { <<A1, A2>>, <<a>> })

\* A -> A a | A b | c
LeftRecursiveGrammar ==
    (VarA :> { <<VarA, a>>, <<VarA, b>>, <<c>> })

\* B -> A | B A,  A -> B a | a   with B ordered first
ChainGrammar ==
    (VarB1 :> { <<VarA2>>, <<VarB1, VarA2>> }) @@
    (VarA2 :> { <<VarB1, a>>, <<a>> })

FixedGrammars == { ExampleGrammar, LeftRecursiveGrammar, ChainGrammar }

----------------------------------------------------------------------------
(* The rewrite steps of GNFConverter, as operators on the grammar *)

IsVariableLeading(body) == body # <<>> /\ Head(body).type = "VARIABLE"

IsTerminalLeading(body) == body # <<>> /\ Head(body).type = "TERMINAL"

\* GNFConverter::isLeftRecursive
IsLeftRecursive(A, body) == body # <<>> /\ Head(body) = A

\* The variable keys in any order, whatever their index
RECURSIVE AnyOrder(_)
AnyOrder(S) ==
    IF S = {} THEN { <<>> }
    ELSE UNION { { <<x>> \o t : t \in AnyOrder(S \ {x}) } : x \in S }

\* step2_Ordering: the variable keys sorted by index.  std::sort is not
\* stable, so keys of equal index may end in either order.
RECURSIVE SortedByIndex(_)
SortedByIndex(S) ==
    IF S = {} THEN { <<>> }
    ELSE UNION { { <<x>> \o t : t \in SortedByIndex(S \ {x}) } :
                 x \in { y \in S : \A z \in S : y.index <= z.index } }

OrderingsOf(G) == SortedByIndex({ k \in Keys(G) : k.type = "VARIABLE" })

\* The j-loop body that erases the bodies leading with Aj and inserts nothing
ForwardRoundErasing(G, Ai, Aj) ==
    [G EXCEPT ![Ai] = { body \in G[Ai] : ~(body # <<>> /\ Head(body) = Aj) }]

\* step3_ForwardSubstitution, the body of the j-loop: every body of Ai that
\* leads with Aj is erased and replaced by beta ++ alpha for each body beta of Aj.
ForwardRound(G, Ai, Aj) ==
    LET hit == { body \in G[Ai] : body # <<>> /\ Head(body) = Aj }
        newRules == IF Aj \in Keys(G)
                    THEN { beta \o Tail(body) : beta \in G[Aj], body \in hit }
                    ELSE {}
    IN  [G EXCEPT ![Ai] = (G[Ai] \ hit) \cup newRules]

\* eliminateLeftRecursion: the new variable Z
NewHelper(A, counter) == Variable(<<90, 95>> \o A.name, 1000 + counter)

HasRecursive(G, A) == \E body \in G[A] : IsLeftRecursive(A, body)

AlphaRules(G, A) == { Tail(body) : body \in { x \in G[A] : IsLeftRecursive(A, x) } }

BetaRules(G, A) == { body \in G[A] : ~IsLeftRecursive(A, body) }

\* A -> beta | beta Z   (lines 200-209)
RulesWithHelper(betaRules, Z) ==
    betaRules \cup { Append(beta, Z) : beta \in betaRules }

\* Z -> alpha Z only
HelperRulesRecursiveOnly(alphaRules, Z) ==
    { Append(alpha, Z) : alpha \in alphaRules }

\* Z -> alpha | alpha Z   (lines 211-219)
HelperRules(alphaRules, Z) ==
    alphaRules \cup { Append(alpha, Z) : alpha \in alphaRules }

\* eliminateLeftRecursion without the early return of line 192
EliminateWithoutEarlyReturn(G, A, counter) ==
    LET Z == NewHelper(A, counter)
        rewritten == [G EXCEPT ![A] = RulesWithHelper(BetaRules(G, A), Z)]
    IN  [k \in Keys(G) \cup {Z} |->
            IF k = Z THEN HelperRules(AlphaRules(G, A), Z) ELSE rewritten[k]]

\* eliminateLeftRecursion that stores no entry for the helper
EliminateWithoutHelperEntry(G, A, counter) ==
    IF ~HasRecursive(G, A) THEN G
    ELSE [G EXCEPT ![A] = RulesWithHelper(BetaRules(G, A), NewHelper(A, counter))]

\* eliminateLeftRecursion: the grammar after the call
EliminateLeftRecursion(G, A, counter) ==
    IF ~HasRecursive(G, A) THEN G
    ELSE LET Z == NewHelper(A, counter)
             rewritten == [G EXCEPT ![A] = RulesWithHelper(BetaRules(G, A), Z)]
         IN  [k \in Keys(G) \cup {Z} |->
                 IF k = Z THEN HelperRules(AlphaRules(G, A), Z) ELSE rewritten[k]]

\* zCounter advanced by every call
CounterAlways(G, A, counter) == counter + 1

\* eliminateLeftRecursion: zCounter after the call
CounterAfter(G, A, counter) == IF HasRecursive(G, A) THEN counter + 1 ELSE counter

\* substituteUntilTerminal: the bodies that replace one variable-leading body.
\* The scan erases as it goes, in the order of the set; when the leading
\* variable is the target itself, grammar.at(first) is the set being scanned,
\* without the variable-leading bodies already passed.
Replacements(G, target, body) ==
    LET first == Head(body)
        suffix == Tail(body)
        source == IF first = target
                  THEN { x \in G[target] :
                           ~(IsVariableLeading(x) /\ BodyLess(x, body)) }
                  ELSE G[first]
    IN  IF first \in Keys(G) THEN { repl \o suffix : repl \in source } ELSE {}

\* substituteUntilTerminal that deletes the key when its set ends empty
SubstitutePruning(G, target) ==
    LET rules == G[target]
        newRules == UNION { Replacements(G, target, body) :
                            body \in { x \in rules : IsVariableLeading(x) } }
        kept == { x \in rules : ~IsVariableLeading(x) } \cup newRules
    IN  IF kept = {} THEN [k \in Keys(G) \ {target} |-> G[k]]
        ELSE [G EXCEPT ![target] = kept]

\* substituteUntilTerminal that erases the variable-leading bodies and inserts nothing
SubstituteDropping(G, target) ==
    [G EXCEPT ![target] = { x \in G[target] : ~IsVariableLeading(x) }]

\* substituteUntilTerminal: the grammar after the call (one scan of the set)
SubstituteUntilTerminal(G, target) ==
    LET rules == G[target]
        newRules == UNION { Replacements(G, target, body) :
                            body \in { x \in rules : IsVariableLeading(x) } }
    IN  [G EXCEPT ![target] = { x \in rules : ~IsVariableLeading(x) } \cup newRules]

\* step5_BackSubstitution, lines 235-240: the keys that are not original
\* variables, in the order of the map (Symbol::operator<)
RECURSIVE InMapOrder(_)
InMapOrder(S) ==
    IF S = {} THEN <<>>
    ELSE LET x == CHOOSE y \in S : \A z \in S \ {y} : SymLess(y, z)
         IN  <<x>> \o InMapOrder(S \ {x})

Range(s) == { s[k] : k \in DOMAIN s }

\* Every key collected, the original variables too
CollectAllKeys(G, ordered) == InMapOrder(Keys(G))

\* No helper collected
CollectNone(G, ordered) == <<>>

CollectZVars(G, ordered) == InMapOrder(Keys(G) \ Range(ordered))

\* step3_ForwardSubstitution from loop position (ii, jj) to its end
RECURSIVE Step3From(_, _, _, _, _)
Step3From(G, counter, ordered, ii, jj) ==
    IF ii > Len(ordered) THEN G
    ELSE IF jj < ii
         THEN Step3From(ForwardRound(G, ordered[ii], ordered[jj]), counter, ordered, ii, jj + 1)
         ELSE Step3From(EliminateLeftRecursion(G, ordered[ii], counter),
                        CounterAfter(G, ordered[ii], counter), ordered, ii + 1, 1)

\* step5_BackSubstitution, lines 228-231: the original variables from ii down to 1
RECURSIVE Step5Originals(_, _, _)
Step5Originals(G, ordered, ii) ==
    IF ii < 1 THEN G
    ELSE Step5Originals(SubstituteUntilTerminal(G, ordered[ii]), ordered, ii - 1)

\* step5_BackSubstitution, lines 242-244: the helper variables
RECURSIVE Step5Helpers(_, _)
Step5Helpers(G, zs) ==
    IF zs = <<>> THEN G
    ELSE Step5Helpers(SubstituteUntilTerminal(G, Head(zs)), Tail(zs))

\* run() as a function of the grammar and the ordering step2 computed
RunFrom(G, ordered) ==
    LET g3 == Step3From(G, 1, ordered, 1, 1)
        g5 == Step5Originals(g3, ordered, Len(ordered))
    IN  Step5Helpers(g5, CollectZVars(g5, ordered))

----------------------------------------------------------------------------
(* The state machine *)

EmptyGrammar(ks) == [k \in ks |-> {}]

Init ==
    /\ grammar \in { EmptyGrammar(u.keys) : u \in Universes } \cup FixedGrammars
    /\ input = grammar
    /\ orderedVariables = <<>>
    /\ zCounter = 1
    /\ pc = "build"
    /\ i = 0
    /\ j = 0
    /\ zVars = <<>>
    /\ run = 1
    /\ rounds = 0
    /\ calls = 0
    /\ log = <<>>
    /\ other = NoConverter
    /\ LbaIdle
    /\ PdaIdle

\* The caller: G[lhs].insert(body)
Insert ==
    /\ pc = "build"
    /\ \E u \in Universes : u.keys = Keys(grammar)
    /\ Size(grammar) < MaxSize
    /\ \E lhs \in Keys(grammar) :
         \E body \in BodiesUpTo(PoolFor(Keys(grammar)), MaxSize - Size(grammar) - 1) :
            /\ body \notin grammar[lhs]
            /\ grammar' = [grammar EXCEPT ![lhs] = @ \cup {body}]
    /\ input' = grammar'
    /\ UNCHANGED <<orderedVariables, zCounter, pc, i, j, zVars, run, rounds, calls, log>>
    /\ UNCHANGED <<other, lbaVars, pdaVars>>

\* GNFConverter converter(G); converter.run() begins
Construct ==
    /\ pc = "build"
    /\ pc' = "step2"
    /\ input' = grammar
    /\ UNCHANGED <<grammar, orderedVariables, zCounter, i, j, zVars, run, rounds, calls, log>>
    /\ UNCHANGED <<other, lbaVars, pdaVars>>

m == Len(orderedVariables)

\* step2_Ordering
Step2_Ordering ==
    /\ pc = "step2"
    /\ orderedVariables' \in OrderingsOf(grammar)
    /\ other.pc \in {"none", "step2"} \/ orderedVariables' = other.orderedVariables
    /\ pc' = "step3"
    /\ i' = 1
    /\ j' = 1
    /\ log' = Append(log, <<"order">>)
    /\ UNCHANGED <<grammar, zCounter, zVars, input, run, rounds, calls>>
    /\ UNCHANGED <<other, lbaVars, pdaVars>>

\* step3_ForwardSubstitution: one pass of the j-loop body
Step3_Round ==
    /\ pc = "step3"
    /\ i <= m
    /\ j < i
    /\ grammar' = ForwardRound(grammar, orderedVariables[i], orderedVariables[j])
    /\ j' = j + 1
    /\ rounds' = rounds + 1
    /\ log' = Append(log, <<"round", orderedVariables[i], orderedVariables[j]>>)
    /\ UNCHANGED <<orderedVariables, zCounter, pc, i, zVars, input, run, calls>>
    /\ UNCHANGED <<other, lbaVars, pdaVars>>

\* step3_ForwardSubstitution: the j-loop is over, eliminateLeftRecursion(Ai)
Step3_Eliminate ==
    /\ pc = "step3"
    /\ i <= m
    /\ j = i
    /\ grammar' = EliminateLeftRecursion(grammar, orderedVariables[i], zCounter)
    /\ zCounter' = CounterAfter(grammar, orderedVariables[i], zCounter)
    /\ IF i < m
       THEN pc' = "step3" /\ i' = i + 1
       ELSE pc' = "step5" /\ i' = m
    /\ j' = 1
    /\ log' = Append(log, <<"eliminate", orderedVariables[i]>>)
    /\ UNCHANGED <<orderedVariables, zVars, input, run, rounds, calls>>
    /\ UNCHANGED <<other, lbaVars, pdaVars>>

\* step5_BackSubstitution: substituteUntilTerminal(Ai), i from m down to 1;
\* after the last one the helper variables are collected
Step5_Original ==
    /\ pc = "step5"
    /\ i >= 1
    /\ grammar' = SubstituteUntilTerminal(grammar, orderedVariables[i])
    /\ i' = i - 1
    /\ IF i > 1
       THEN pc' = "step5" /\ zVars' = zVars
       ELSE /\ zVars' = CollectZVars(grammar', orderedVariables)
            /\ pc' = IF zVars' = <<>> THEN "done" ELSE "step5z"
    /\ calls' = calls + 1
    /\ log' = Append(log, <<"substitute", orderedVariables[i]>>)
    /\ UNCHANGED <<orderedVariables, zCounter, j, input, run, rounds>>
    /\ UNCHANGED <<other, lbaVars, pdaVars>>

\* step5_BackSubstitution: substituteUntilTerminal(Z) for the next helper
Step5_Helper ==
    /\ pc = "step5z"
    /\ zVars # <<>>
    /\ grammar' = SubstituteUntilTerminal(grammar, Head(zVars))
    /\ zVars' = Tail(zVars)
    /\ pc' = IF zVars' = <<>> THEN "done" ELSE "step5z"
    /\ calls' = calls + 1
    /\ log' = Append(log, <<"substitute", Head(zVars)>>)
    /\ UNCHANGED <<orderedVariables, zCounter, i, j, input, run, rounds>>
    /\ UNCHANGED <<other, lbaVars, pdaVars>>

\* The caller constructs a new converter from the grammar run() produced
Rerun ==
    /\ pc = "done"
    /\ run < MaxRuns
    /\ Size(grammar) <= MaxRerunSize
    /\ run' = run + 1
    /\ input' = grammar
    /\ orderedVariables' = <<>>
    /\ zCounter' = 1
    /\ pc' = "step2"
    /\ i' = 0
    /\ j' = 0
    /\ zVars' = <<>>
    /\ rounds' = 0
    /\ calls' = 0
    /\ log' = <<>>
    /\ UNCHANGED grammar
    /\ UNCHANGED <<other, lbaVars, pdaVars>>

Next ==
    \/ Insert
    \/ Construct
    \/ Step2_Ordering
    \/ Step3_Round
    \/ Step3_Eliminate
    \/ Step5_Original
    \/ Step5_Helper
    \/ Rerun

Spec == Init /\ [][Next]_vars

\* The steps of run()
RunStep ==
    \/ Step2_Ordering
    \/ Step3_Round
    \/ Step3_Eliminate
    \/ Step5_Original
    \/ Step5_Helper

----------------------------------------------------------------------------
(* Two converters built from the same grammar, their steps interleaved.    *)
(* The second converter is the record other; std::sort is a function, so   *)
(* both converters order equal key sets alike.                             *)

\* Size of the largest grammar two converters are built from.
MaxTwinSize == 4

\* A converter whose helper counter starts one higher
ConverterCountingOn(G) ==
    [grammar |-> G, orderedVariables |-> <<>>, zCounter |-> 2,
     pc |-> "step2", i |-> 0, j |-> 0, zVars |-> <<>>]

\* GNFConverter(Grammar initialGrammar) : grammar(initialGrammar), with zCounter = 1
NewConverter(G) ==
    [grammar |-> G, orderedVariables |-> <<>>, zCounter |-> 1,
     pc |-> "step2", i |-> 0, j |-> 0, zVars |-> <<>>]

\* The converters a converter can be after its next step of run()
StepsOf(cv, sorted) ==
    LET ov == cv.orderedVariables
        n == Len(ov)
    IN  CASE cv.pc = "step2" ->
               { [cv EXCEPT !.orderedVariables = o, !.pc = "step3", !.i = 1, !.j = 1] :
                   o \in sorted }
          [] cv.pc = "step3" /\ cv.i <= n /\ cv.j < cv.i ->
               { [cv EXCEPT !.grammar = ForwardRound(cv.grammar, ov[cv.i], ov[cv.j]),
                            !.j = cv.j + 1] }
          [] cv.pc = "step3" /\ cv.i <= n /\ cv.j = cv.i ->
               { [cv EXCEPT !.grammar = EliminateLeftRecursion(cv.grammar, ov[cv.i], cv.zCounter),
                            !.zCounter = CounterAfter(cv.grammar, ov[cv.i], cv.zCounter),
                            !.pc = IF cv.i < n THEN "step3" ELSE "step5",
                            !.i = IF cv.i < n THEN cv.i + 1 ELSE n,
                            !.j = 1] }
          [] cv.pc = "step5" /\ cv.i >= 1 ->
               LET g == SubstituteUntilTerminal(cv.grammar, ov[cv.i])
                   zs == IF cv.i > 1 THEN cv.zVars ELSE CollectZVars(g, ov)
               IN  { [cv EXCEPT !.grammar = g,
                                !.i = cv.i - 1,
                                !.zVars = zs,
                                !.pc = IF cv.i > 1 THEN "step5"
                                       ELSE IF zs = <<>> THEN "done" ELSE "step5z"] }
          [] cv.pc = "step5z" /\ cv.zVars # <<>> ->
               { [cv EXCEPT !.grammar = SubstituteUntilTerminal(cv.grammar, Head(cv.zVars)),
                            !.zVars = Tail(cv.zVars),
                            !.pc = IF Tail(cv.zVars) = <<>> THEN "done" ELSE "step5z"] }
          [] OTHER -> {}

\* GNFConverter converter(G) twice: two converters from the same grammar
ConstructTwo ==
    /\ pc = "build"
    /\ Size(grammar) <= MaxTwinSize \/ grammar \in FixedGrammars
    /\ pc' = "step2"
    /\ input' = grammar
    /\ other' = NewConverter(grammar)
    /\ UNCHANGED <<grammar, orderedVariables, zCounter, i, j, zVars, run, rounds, calls, log>>
    /\ UNCHANGED <<lbaVars, pdaVars>>

\* A step of run() of the second converter
OtherStep ==
    /\ other.pc \notin {"none", "done"}
    /\ other' \in StepsOf(other, IF pc \in {"build", "step2"}
                                 THEN OrderingsOf(other.grammar)
                                 ELSE { orderedVariables })
    /\ UNCHANGED <<grammar, orderedVariables, zCounter, pc, i, j, zVars, input, run,
                   rounds, calls, log>>
    /\ UNCHANGED <<lbaVars, pdaVars>>

TwinNext ==
    \/ Insert
    \/ ConstructTwo
    \/ Step2_Ordering
    \/ Step3_Round
    \/ Step3_Eliminate
    \/ Step5_Original
    \/ Step5_Helper
    \/ OtherStep

SpecTwin == Init /\ [][TwinNext]_vars

----------------------------------------------------------------------------
(* Derivability: the terminal strings of length at most K each key derives, *)
(* as the least fixpoint of the productions.  A variable without an entry   *)
(* derives nothing.                                                         *)

ConcatK(X, Y) == { w \in { x \o y : x \in X, y \in Y } : Len(w) <= K }

SymbolStrings(L, s) ==
    IF s.type = "TERMINAL" THEN { w \in { <<s>> } : Len(w) <= K }
    ELSE IF s \in DOMAIN L THEN L[s]
    ELSE {}

RECURSIVE BodyStrings(_, _)
BodyStrings(L, body) ==
    IF body = <<>> THEN { <<>> }
    ELSE ConcatK(SymbolStrings(L, Head(body)), BodyStrings(L, Tail(body)))

DeriveStep(G, L) == [k \in Keys(G) |-> UNION { BodyStrings(L, body) : body \in G[k] }]

RECURSIVE DeriveFix(_, _)
DeriveFix(G, L) ==
    LET next == DeriveStep(G, L)
    IN  IF next = L THEN L ELSE DeriveFix(G, next)

\* Derivable(G)[S]: the strings of length <= K derivable from S in G
Derivable(G) == DeriveFix(G, [k \in Keys(G) |-> {}])

SameLanguage(G1, G2, S) == Derivable(G1)[S] = Derivable(G2)[S]

----------------------------------------------------------------------------
(* Properties of input grammars *)

Done == pc = "done"

BodiesOf(G) == UNION { G[k] : k \in Keys(G) }

BodiesNonEmpty(G) == \A body \in BodiesOf(G) : body # <<>>

UniqueOrders(G) == \A k1, k2 \in Keys(G) : k1 # k2 => k1.index # k2.index

VariablesIn(G) ==
    UNION { { body[n] : n \in { x \in DOMAIN body : body[x].type = "VARIABLE" } } :
            body \in BodiesOf(G) }

NoDangling(G) == VariablesIn(G) \subseteq Keys(G)

AllTerminalLeading(G) == \A body \in BodiesOf(G) : IsTerminalLeading(body)

GNFBody(body) ==
    /\ IsTerminalLeading(body)
    /\ \A n \in 2..Len(body) : body[n].type = "VARIABLE"

\* The grammar without one body of A
Without(G, A, body) == [G EXCEPT ![A] = @ \ {body}]

\* The index the outer loop of step3 has finished (0: none yet or already in step5)
FinishedIndex ==
    IF pc = "step3" THEN i - 1
    ELSE IF pc = "step5" /\ calls = 0 THEN m
    ELSE 0

----------------------------------------------------------------------------
(* The linear bounded automata.  A character is a one-character string;    *)
(* Nul stands for '\0', which run() reads at head = tape.length().          *)

\* Length of the longest input of the a^n b^n c^n machine.
MaxTape == 6

\* Length of the longest input of the copy-language machine.
MaxCopyTape == 6

\* Length of the longest input that holds characters outside the input alphabet.
MaxAnyTape == 4

\* Largest number of loop iterations that is counted.
MaxSteps == 128

Nul == "NUL"

\* The iteration count after one more iteration
Tick(n) == IF n < MaxSteps THEN n + 1 ELSE n

StringsOver(alphabet, n) == UNION { [1..k -> alphabet] : k \in 0..n }

\* char currentChar = (head < tape.length()) ? tape[head] : '\0'
CurrentChar(t, h) == IF h < Len(t) THEN t[h + 1] ELSE Nul

\* tape[head] = x
Write(t, h, x) == [t EXCEPT ![h + 1] = x]

Config(t, h, q) == [tape |-> t, head |-> h, state |-> q]

Halted == currentState \in {"ACCEPT", "REJECT"}

----------------------------------------------------------------------------
(* LBA_Example.cpp: L = { a^n b^n c^n : n >= 1 } *)

\* case State::START
AnBnCn_START(t, h, ch) ==
    IF ch = "a" THEN Config(Write(t, h, "X"), h + 1, "FIND_B")
    ELSE IF ch = "Y" THEN Config(t, h + 1, "CHECK_FINAL")
    ELSE Config(t, h, "REJECT")

\* case State::FIND_B
AnBnCn_FIND_B(t, h, ch) ==
    IF ch = "a" THEN Config(t, h + 1, "FIND_B")
    ELSE IF ch = "Y" THEN Config(t, h + 1, "FIND_B")
    ELSE IF ch = "b" THEN Config(Write(t, h, "Y"), h + 1, "FIND_C")
    ELSE Config(t, h, "REJECT")

\* case State::FIND_C
AnBnCn_FIND_C(t, h, ch) ==
    IF ch = "b" THEN Config(t, h + 1, "FIND_C")
    ELSE IF ch = "Z" THEN Config(t, h + 1, "FIND_C")
    ELSE IF ch = "c" THEN Config(Write(t, h, "Z"), h - 1, "REWIND")
    ELSE Config(t, h, "REJECT")

\* REWIND that moves left two cells at a time
AnBnCn_REWIND_ByTwo(t, h, ch) ==
    IF ch = "X" THEN Config(t, h + 1, "START")
    ELSE Config(t, h - 2, "REWIND")

\* case State::REWIND
AnBnCn_REWIND(t, h, ch) ==
    IF ch = "X" THEN Config(t, h + 1, "START")
    ELSE Config(t, h - 1, "REWIND")

\* CHECK_FINAL that moves right over every character
AnBnCn_CHECK_FINAL_Lenient(t, h, ch) ==
    IF ch = Nul THEN Config(t, h, "ACCEPT")
    ELSE Config(t, h + 1, "CHECK_FINAL")

\* case State::CHECK_FINAL
AnBnCn_CHECK_FINAL(t, h, ch) ==
    IF ch = Nul THEN Config(t, h, "ACCEPT")
    ELSE IF ch = "Y" \/ ch = "Z" THEN Config(t, h + 1, "CHECK_FINAL")
    ELSE Config(t, h, "REJECT")

\* One iteration of the loop of LBA::run
AnBnCn_Delta(t, h, q) ==
    IF h < 0 \/ h > Len(t) THEN Config(t, h, "REJECT")
    ELSE LET ch == CurrentChar(t, h)
         IN  CASE q = "START"       -> AnBnCn_START(t, h, ch)
               [] q = "FIND_B"      -> AnBnCn_FIND_B(t, h, ch)
               [] q = "FIND_C"      -> AnBnCn_FIND_C(t, h, ch)
               [] q = "REWIND"      -> AnBnCn_REWIND(t, h, ch)
               [] q = "CHECK_FINAL" -> AnBnCn_CHECK_FINAL(t, h, ch)
               [] OTHER             -> Config(t, h, "REJECT")

\* LBA machine(test)
AnBnCn_Init ==
    /\ test \in StringsOver({"a", "b", "c"}, MaxTape)
    /\ tape = test
    /\ head = 0
    /\ currentState = "START"
    /\ steps = 0
    /\ GnfIdle
    /\ PdaIdle

\* run(): one iteration of the while loop
AnBnCn_Step ==
    /\ ~Halted
    /\ LET next == AnBnCn_Delta(tape, head, currentState)
       IN  /\ tape' = next.tape
           /\ head' = next.head
           /\ currentState' = next.state
    /\ steps' = Tick(steps)
    /\ UNCHANGED <<test, gnfVars, pdaVars>>

AnBnCn_Next == AnBnCn_Step

SpecAnBnCn == AnBnCn_Init /\ [][AnBnCn_Next]_vars

\* The input alphabet and the marks the machine writes
AnBnCn_Symbols == {"a", "b", "c", "X", "Y", "Z"}

\* LBA machine(test), for a string that may hold the machine's own marks
AnBnCnAny_Init ==
    /\ test \in StringsOver({"a", "b", "c"}, MaxTape) \cup StringsOver(AnBnCn_Symbols, MaxAnyTape)
    /\ tape = test
    /\ head = 0
    /\ currentState = "START"
    /\ steps = 0
    /\ GnfIdle
    /\ PdaIdle

SpecAnBnCnAny == AnBnCnAny_Init /\ [][AnBnCn_Next]_vars

----------------------------------------------------------------------------
(* LBA_Copy_Language.cpp: L = { ww } *)

\* case State::MARK_LEFT
Copy_MARK_LEFT(t, h, ch) ==
    IF ch = "a" THEN Config(Write(t, h, "A"), h + 1, "FIND_END")
    ELSE IF ch = "b" THEN Config(Write(t, h, "B"), h + 1, "FIND_END")
    ELSE IF ch = "1" \/ ch = "2" THEN Config(t, h, "RESET_HEAD")
    ELSE IF ch = Nul THEN Config(t, h, "ACCEPT")
    ELSE Config(t, h, "REJECT")

\* case State::FIND_END
Copy_FIND_END(t, h, ch) ==
    IF ch = "a" \/ ch = "b" \/ ch = "1" \/ ch = "2" THEN Config(t, h + 1, "FIND_END")
    ELSE IF ch = Nul THEN Config(t, h - 1, "MARK_RIGHT")
    ELSE Config(t, h, "REJECT")

\* case State::MARK_RIGHT
Copy_MARK_RIGHT(t, h, ch) ==
    IF ch = "1" \/ ch = "2" THEN Config(t, h - 1, "MARK_RIGHT")
    ELSE IF ch = "a" THEN Config(Write(t, h, "1"), h - 1, "RETURN_START")
    ELSE IF ch = "b" THEN Config(Write(t, h, "2"), h - 1, "RETURN_START")
    ELSE Config(t, h, "REJECT")

\* case State::RETURN_START
Copy_RETURN_START(t, h, ch) ==
    IF ch = "A" \/ ch = "B" THEN Config(t, h + 1, "MARK_LEFT")
    ELSE Config(t, h - 1, "RETURN_START")

\* RESET_HEAD that never leaves cell 0
Copy_RESET_HEAD_Stuck(t, h, ch) ==
    IF h > 0 THEN Config(t, h - 1, "RESET_HEAD")
    ELSE Config(t, h, "RESET_HEAD")

\* case State::RESET_HEAD
Copy_RESET_HEAD(t, h, ch) ==
    IF h > 0 THEN Config(t, h - 1, "RESET_HEAD")
    ELSE Config(t, h, "COMPARE_LEFT")

\* case State::COMPARE_LEFT
Copy_COMPARE_LEFT(t, h, ch) ==
    IF ch = "*" THEN Config(t, h + 1, "COMPARE_LEFT")
    ELSE IF ch = "A" THEN Config(Write(t, h, "*"), h + 1, "MATCH_A")
    ELSE IF ch = "B" THEN Config(Write(t, h, "*"), h + 1, "MATCH_B")
    ELSE IF ch = Nul THEN Config(t, h, "ACCEPT")
    ELSE Config(t, h, "REJECT")

\* case State::MATCH_A
Copy_MATCH_A(t, h, ch) ==
    IF ch = "A" \/ ch = "B" \/ ch = "*" THEN Config(t, h + 1, "MATCH_A")
    ELSE IF ch = "1" THEN Config(Write(t, h, "*"), h - 1, "RETURN_LEFT")
    ELSE IF ch = "2" \/ ch = Nul THEN Config(t, h, "REJECT")
    ELSE Config(t, h + 1, "MATCH_A")

\* case State::MATCH_B
Copy_MATCH_B(t, h, ch) ==
    IF ch = "A" \/ ch = "B" \/ ch = "*" THEN Config(t, h + 1, "MATCH_B")
    ELSE IF ch = "2" THEN Config(Write(t, h, "*"), h - 1, "RETURN_LEFT")
    ELSE IF ch = "1" \/ ch = Nul THEN Config(t, h, "REJECT")
    ELSE Config(t, h + 1, "MATCH_B")

\* case State::RETURN_LEFT
Copy_RETURN_LEFT(t, h, ch) ==
    IF ch = "A" \/ ch = "B" THEN Config(t, h - 1, "RETURN_LEFT")
    ELSE IF ch = "*" THEN Config(t, h + 1, "COMPARE_LEFT")
    ELSE Config(t, h - 1, "RETURN_LEFT")

\* One iteration of the loop of LBA::run
Copy_Delta(t, h, q) ==
    IF h < 0 \/ h > Len(t) THEN Config(t, h, "REJECT")
    ELSE LET ch == CurrentChar(t, h)
         IN  CASE q = "MARK_LEFT"    -> Copy_MARK_LEFT(t, h, ch)
               [] q = "FIND_END"     -> Copy_FIND_END(t, h, ch)
               [] q = "MARK_RIGHT"   -> Copy_MARK_RIGHT(t, h, ch)
               [] q = "RETURN_START" -> Copy_RETURN_START(t, h, ch)
               [] q = "RESET_HEAD"   -> Copy_RESET_HEAD(t, h, ch)
               [] q = "COMPARE_LEFT" -> Copy_COMPARE_LEFT(t, h, ch)
               [] q = "MATCH_A"      -> Copy_MATCH_A(t, h, ch)
               [] q = "MATCH_B"      -> Copy_MATCH_B(t, h, ch)
               [] q = "RETURN_LEFT"  -> Copy_RETURN_LEFT(t, h, ch)
               [] OTHER              -> Config(t, h, "REJECT")

\* LBA machine(test)
Copy_Init ==
    /\ test \in StringsOver({"a", "b"}, MaxCopyTape)
    /\ tape = test
    /\ head = 0
    /\ currentState = "MARK_LEFT"
    /\ steps = 0
    /\ GnfIdle
    /\ PdaIdle

\* run(): one iteration of the while loop
Copy_Step ==
    /\ ~Halted
    /\ LET next == Copy_Delta(tape, head, currentState)
       IN  /\ tape' = next.tape
           /\ head' = next.head
           /\ currentState' = next.state
    /\ steps' = Tick(steps)
    /\ UNCHANGED <<test, gnfVars, pdaVars>>

Copy_Next == Copy_Step

SpecCopy == Copy_Init /\ [][Copy_Next]_vars

\* The input alphabet, the marks the machine writes and a foreign character
Copy_Symbols == {"a", "b", "A", "B", "1", "2", "*", "c"}

\* LBA machine(test), for a string that may hold any character
CopyAny_Init ==
    /\ test \in StringsOver({"a", "b"}, MaxCopyTape) \cup StringsOver(Copy_Symbols, MaxAnyTape)
    /\ tape = test
    /\ head = 0
    /\ currentState = "MARK_LEFT"
    /\ steps = 0
    /\ GnfIdle
    /\ PdaIdle

\* The while loop of run() keeps iterating until the state is ACCEPT or REJECT
SpecCopyFair == CopyAny_Init /\ [][Copy_Next]_vars /\ WF_vars(Copy_Step)

----------------------------------------------------------------------------
(* CFG-PDA_Equivalence_Example.cpp: L = { a^n b^n : n >= 0 } *)

\* Length of the longest string read by main.
MaxInput == 6

\* simulatePDA: the loop from the k-th character on (k is 1-based), with the
\* state and the stack reached so far
RECURSIVE PdaFrom(_, _, _, _)
PdaFrom(in, k, state, pdaStack) ==
    IF k > Len(in) THEN pdaStack = <<>>
    ELSE IF state = "q_start"
         THEN IF in[k] = "a" THEN PdaFrom(in, k + 1, "q_start", Append(pdaStack, "$"))
              ELSE IF in[k] = "b"
                   THEN IF pdaStack = <<>> THEN FALSE
                        ELSE PdaFrom(in, k + 1, "q_read_b", SubSeq(pdaStack, 1, Len(pdaStack) - 1))
                   ELSE FALSE
         ELSE IF in[k] = "b"
              THEN IF pdaStack = <<>> THEN FALSE
                   ELSE PdaFrom(in, k + 1, "q_read_b", SubSeq(pdaStack, 1, Len(pdaStack) - 1))
              ELSE FALSE

simulatePDA(in) == PdaFrom(in, 1, "q_start", <<>>)

\* parseS: the result and the index (0-based) it leaves
RECURSIVE parseS(_, _)
parseS(in, index) ==
    IF index < Len(in) /\ in[index + 1] = "a"
    THEN LET mid == parseS(in, index + 1)
         IN  IF ~mid.ok THEN [ok |-> FALSE, index |-> mid.index]
             ELSE IF mid.index < Len(in) /\ in[mid.index + 1] = "b"
                  THEN [ok |-> TRUE, index |-> mid.index + 1]
                  ELSE [ok |-> FALSE, index |-> mid.index]
    ELSE [ok |-> TRUE, index |-> index]

\* parseCFG without the test that the whole input was consumed
parseCFGPrefix(in) == parseS(in, 0).ok

parseCFG(in) ==
    LET r == parseS(in, 0)
    IN  r.ok /\ r.index = Len(in)

\* main: std::getline(std::cin, userInput)
PDA_Init ==
    /\ userInput \in StringsOver({"a", "b", "c"}, MaxInput)
    /\ pda_result = FALSE
    /\ cfg_result = FALSE
    /\ analysed = 0
    /\ GnfIdle
    /\ LbaIdle

\* main: bool pda_result = simulatePDA(userInput)
CallSimulatePDA ==
    /\ analysed = 0
    /\ pda_result' = simulatePDA(userInput)
    /\ analysed' = 1
    /\ UNCHANGED <<userInput, cfg_result, gnfVars, lbaVars>>

\* main: bool cfg_result = parseCFG(userInput)
CallParseCFG ==
    /\ analysed = 1
    /\ cfg_result' = parseCFG(userInput)
    /\ analysed' = 2
    /\ UNCHANGED <<userInput, pda_result, gnfVars, lbaVars>>

PDA_Next ==
    \/ CallSimulatePDA
    \/ CallParseCFG

SpecPDA == PDA_Init /\ [][PDA_Next]_vars

----------------------------------------------------------------------------
(* The claims *)

\* C1: after run() on an input with non-empty bodies, unique order values and
\* no dangling reference, every body of every key of the grammar is non-empty
\* and leads with a terminal.
C1_GNFInvariant ==
    (Done /\ BodiesNonEmpty(input) /\ UniqueOrders(input) /\ NoDangling(input))
        => AllTerminalLeading(grammar)

\* C2: for every input grammar and every key S of it, the terminal strings of
\* length at most K derivable from S are the same before and after run().
C2_LanguagePreserved ==
    Done => \A S \in Keys(input) : SameLanguage(input, grammar, S)

\* C3: after run() on an input with non-empty bodies and unique order values,
\* every body is one terminal followed only by variables.
C3_GNFShape ==
    (Done /\ BodiesNonEmpty(input) /\ UniqueOrders(input))
        => \A body \in BodiesOf(grammar) : GNFBody(body)

\* C4: on the worked example run() ends with every body of every key leading
\* with a terminal, and A1, A2, A3 derive the same strings of length at most K
\* as in the original grammar.
C4_WorkedExample ==
    (Done /\ input = ExampleGrammar)
        => /\ AllTerminalLeading(grammar)
           /\ \A S \in {A1, A2, A3} : SameLanguage(ExampleGrammar, grammar, S)

C4_Witness ==
    /\ Done
    /\ input = ExampleGrammar
    /\ Keys(grammar) # Keys(input)
    /\ \E w \in Derivable(grammar)[A3] : Len(w) = K

\* C5 (every call): when some body of A leads with A, eliminateLeftRecursion(A)
\* leaves A with exactly the bodies beta and beta.Z and the helper Z with
\* exactly the bodies alpha and alpha.Z.
C5_EveryCall ==
    [][ LET A == orderedVariables[i]
            recursive == { body \in grammar[A] : body # <<>> /\ body[1] = A }
            beta == grammar[A] \ recursive
            alpha == { SubSeq(body, 2, Len(body)) : body \in recursive }
        IN  (pc = "step3" /\ j = i /\ recursive # {})
               => \E Z \in Keys(grammar') \ {A} :
                     /\ grammar'[A] = beta \cup { x \o <<Z>> : x \in beta }
                     /\ grammar'[Z] = alpha \cup { x \o <<Z>> : x \in alpha } ]_vars

\* C5 (the example): A -> A a | A b | c becomes A -> c | c Z, Z -> a | a Z | b | b Z.
C5_Example ==
    (input = LeftRecursiveGrammar /\ pc = "step5" /\ calls = 0)
        => \E Z \in Keys(grammar) \ {VarA} :
              /\ Keys(grammar) = {VarA, Z}
              /\ grammar[VarA] = { <<c>>, <<c, Z>> }
              /\ grammar[Z] = { <<a>>, <<a, Z>>, <<b>>, <<b, Z>> }

\* C5: eliminateLeftRecursion(A) sets A's production set to exactly
\* { beta, beta.Z } and the helper's to exactly { alpha, alpha.Z }; the bodies
\* {A a, A b, c} give A -> c | c Z and Z -> a | a Z | b | b Z.
C5_Elimination == C5_EveryCall /\ []C5_Example

C5_Witness ==
    /\ input = LeftRecursiveGrammar
    /\ pc = "step5"
    /\ calls = 0
    /\ zCounter = 2
    /\ Cardinality(Keys(grammar)) = 2

\* C6: when the outer loop of forward substitution has finished index i, no
\* body of A_j (j <= i) leads with an original variable A_k with k <= j, on
\* every input with non-empty bodies and unique order values.
C6_OrderingMonotonicity ==
    (BodiesNonEmpty(input) /\ UniqueOrders(input))
        => \A jj \in 1..FinishedIndex :
              \A body \in grammar[orderedVariables[jj]] :
                 ~(IsVariableLeading(body)
                   /\ \E k \in 1..jj : Head(body) = orderedVariables[k])

\* C7: when every body of the input is non-empty and leads with a terminal,
\* run() changes no production set and creates no helper variable; so for a
\* second run on the output of a first run that reached that form.
C7_GNFUnchanged ==
    (pc # "build" /\ AllTerminalLeading(input))
        => (grammar = input /\ zCounter = 1)

C7_Witness ==
    /\ Done
    /\ run = 2
    /\ AllTerminalLeading(input)
    /\ \E k \in Keys(input) : k.index > 1000 /\ input[k] # {}
    /\ \E body \in BodiesOf(input) : Len(body) >= 2

\* C8: when a body of A leads with a variable that is not a key of the input,
\* after run() that body is not in A's production set, A's production set is
\* what run() gives without that body (nothing was inserted in its place), and
\* A is still a key.
C8_DanglingDropped ==
    Done => \A A \in Keys(input) : \A body \in input[A] :
               (IsVariableLeading(body) /\ Head(body) \notin Keys(input))
                  => /\ A \in Keys(grammar)
                     /\ body \notin grammar[A]
                     /\ grammar[A] = RunFrom(Without(input, A, body), orderedVariables)[A]

\* C9: run() terminates on every input: it makes at most m(m-1)/2 passes of
\* the forward-substitution j-loop and calls substituteUntilTerminal at most
\* once per key, and until it is done a next step exists.
C9_Terminates ==
    pc # "build"
        => /\ 2 * rounds <= m * (m - 1)
           /\ calls <= Cardinality(Keys(grammar))
           /\ (Done \/ ENABLED RunStep)

C9_Witness ==
    /\ Done
    /\ m >= 2
    /\ 2 * rounds = m * (m - 1)
    /\ calls >= m
    /\ ~UniqueOrders(input)
    /\ \E k \in Keys(input) : <<k>> \in input[k]

\* C10: the helper eliminateLeftRecursion(A) is about to create differs from
\* every key of the grammar and from every symbol that occurs in a body.
C10_FreshHelper ==
    (pc = "step3" /\ j = i /\ HasRecursive(grammar, orderedVariables[i]))
        => NewHelper(orderedVariables[i], zCounter)
              \notin Keys(grammar) \cup VariablesIn(grammar)

\* A symbol that has the form of a helper of an original variable of the run:
\* a variable named "Z_" + name with an order value above 1000.
IsHelperSymbol(k) ==
    /\ k.type = "VARIABLE"
    /\ k.index > 1000
    /\ \E A \in Range(orderedVariables) : k.name = <<90, 95>> \o A.name

\* C11: in every step the keys of the grammar only grow (a key whose
\* production set has become empty stays a key), and every key a step adds is
\* a helper variable.
C11_KeysOnlyGrow ==
    [][ /\ Keys(grammar) \subseteq Keys(grammar')
        /\ \A k \in Keys(grammar') \ Keys(grammar) : IsHelperSymbol(k) ]_vars

C11_Witness ==
    /\ Done
    /\ Keys(grammar) # Keys(input)
    /\ \E k \in Keys(input) : input[k] # {} /\ grammar[k] = {}

\* C12: when two variable keys of the input carry the same order value, no
\* step of run() after step2 is reached and the grammar stays the input.
C12_DuplicateRejected ==
    ~UniqueOrders(input)
        => (pc \notin {"step3", "step5", "step5z"} /\ grammar = input)

\* C13: step2_Ordering yields a sequence that holds every variable key of the
\* grammar exactly once, in ascending order value, and changes no production set.
C13_Ordering ==
    [][ pc = "step2"
          => LET vs == { k \in Keys(grammar) : k.type = "VARIABLE" }
                 ov == orderedVariables'
             IN  /\ Len(ov) = Cardinality(vs)
                 /\ Range(ov) = vs
                 /\ \A p, q \in 1..Len(ov) : p < q => ov[p].index <= ov[q].index
                 /\ grammar' = grammar ]_vars

C13_Witness ==
    /\ pc = "step3"
    /\ i = 1
    /\ j = 1
    /\ rounds = 0
    /\ orderedVariables = <<VarB1, VarA2>>
    /\ grammar = input

\* C14 (as the specification states it): on the worked example the string
\* "ba" is derivable from A1 neither in the original grammar nor after run().
C14_BaNotDerivable ==
    (Done /\ run = 1 /\ input = ExampleGrammar)
        => /\ <<b, a>> \notin Derivable(input)[A1]
           /\ <<b, a>> \notin Derivable(grammar)[A1]

\* C14: on the worked example the string "ba" is derivable from A1 in the
\* original grammar (A1 => A2 A3 => b A3 => b a) and in the grammar after run().
C14_BaDerivable ==
    (Done /\ run = 1 /\ input = ExampleGrammar)
        => /\ <<b, a>> \in Derivable(input)[A1]
           /\ <<b, a>> \in Derivable(grammar)[A1]

C14_Witness ==
    /\ Done
    /\ run = 1
    /\ input = ExampleGrammar
    /\ <<A2, A3>> \notin grammar[A1]
    /\ grammar[A1] # {}

\* The variable the next call of substituteUntilTerminal is made for
NextTarget ==
    IF pc = "step5" /\ i >= 1 THEN { orderedVariables[i] }
    ELSE IF pc = "step5z" /\ zVars # <<>> THEN { Head(zVars) }
    ELSE {}

\* C18: when substituteUntilTerminal(V) returns, no body of V leads with a
\* variable, for every call run() makes.
C18_NoVariableLeading ==
    \A V \in NextTarget :
        \A body \in SubstituteUntilTerminal(grammar, V)[V] : ~IsVariableLeading(body)

\* C19: on an input with non-empty bodies, the helper Z that
\* eliminateLeftRecursion(A) creates has no empty body and no body leading with Z.
C19_HelperBodies ==
    (BodiesNonEmpty(input) /\ pc = "step3" /\ i <= m /\ j = i
        /\ HasRecursive(grammar, orderedVariables[i]))
        => LET Z == NewHelper(orderedVariables[i], zCounter)
               after == EliminateLeftRecursion(grammar, orderedVariables[i], zCounter)
           IN  \A body \in after[Z] : body # <<>> /\ Head(body) # Z

\* C20: when forward substitution has finished, no body of an original
\* variable leads with a variable that has no entry in the grammar.
C20_DanglingRemovedInStep3 ==
    (pc = "step5" /\ calls = 0)
        => \A k \in Range(orderedVariables) : \A body \in grammar[k] :
              ~(IsVariableLeading(body) /\ Head(body) \notin Keys(grammar))

\* s = a^n b^n c^n for some n >= 1
IsAnBnCn(s) ==
    \E n \in 1..Len(s) :
        /\ Len(s) = 3 * n
        /\ \A k \in 1..n : s[k] = "a" /\ s[n + k] = "b" /\ s[2 * n + k] = "c"

\* C16: for every string over {a, b, c}, run() of the a^n b^n c^n machine
\* returns (within (n+2)^2 iterations for a string of length n), and it
\* returns true exactly when the string is a^n b^n c^n for some n >= 1.
C16_AnBnCn ==
    /\ steps <= (Len(test) + 2) * (Len(test) + 2)
    /\ Halted => (currentState = "ACCEPT" <=> IsAnBnCn(test))

C16_Witness ==
    /\ currentState = "ACCEPT"
    /\ Len(test) >= 6
    /\ \A k \in 1..Len(tape) : tape[k] \in {"X", "Y", "Z"}

\* s = ww for some w
IsCopy(s) ==
    /\ Len(s) % 2 = 0
    /\ \A k \in 1..(Len(s) \div 2) : s[k] = s[k + (Len(s) \div 2)]

\* C15: for every string over {a, b}, when run() of the copy-language machine
\* has returned, it returned true exactly when the string is ww for some w.
C15_CopyLanguage ==
    Halted => (currentState = "ACCEPT" <=> IsCopy(test))

\* s = a^n b^n for some n >= 0
IsAnBn(s) ==
    /\ Len(s) % 2 = 0
    /\ \A k \in 1..(Len(s) \div 2) : s[k] = "a" /\ s[k + (Len(s) \div 2)] = "b"

\* C17: for every string (over a, b and another character), simulatePDA and
\* parseCFG return the same value, and it is true exactly when the string is
\* a^n b^n for some n >= 0.
C17_PdaCfgAgree ==
    analysed = 2
        => /\ pda_result = cfg_result
           /\ pda_result <=> IsAnBn(userInput)

C17_Witness ==
    /\ analysed = 2
    /\ pda_result
    /\ cfg_result
    /\ Len(userInput) >= 4

\* C21: when the pass over the original variables has ended, processing the
\* helper variables in any order gives the grammar that the order of the map
\* gives.
C21_HelperOrderIndependent ==
    (pc = "step5z" /\ calls = m)
        => \A order \in AnyOrder(Range(zVars)) :
              Step5Helpers(grammar, order) = Step5Helpers(grammar, zVars)

\* C22: on an input with non-empty bodies, unique order values and no dangling
\* reference, during the pass of back substitution over the original variables
\* every body of every original variable already processed (A_k, k > i) leads
\* with a terminal; so for all of them when the pass has ended.
C22_ProcessedAreTerminalLeading ==
    (BodiesNonEmpty(input) /\ UniqueOrders(input) /\ NoDangling(input)
        /\ pc \in {"step5", "step5z", "done"} /\ calls <= m)
        => \A k \in (m - calls + 1)..m :
              \A body \in grammar[orderedVariables[k]] : IsTerminalLeading(body)

\* C24: when no body of A leads with A, the step eliminateLeftRecursion(A)
\* leaves the whole grammar (keys and production sets) and the helper counter
\* as they were.
C24_NoRecursionNoOp ==
    [][ (pc = "step3" /\ i <= m /\ j = i
           /\ \A body \in grammar[orderedVariables[i]] :
                 body = <<>> \/ body[1] # orderedVariables[i])
          => (grammar' = grammar /\ zCounter' = zCounter) ]_vars

C24_Witness ==
    /\ pc = "step5"
    /\ calls = 0
    /\ m >= 2
    /\ zCounter = 1
    /\ \E body \in BodiesOf(grammar) : IsVariableLeading(body)

\* C25: when every variable that occurs in a body of the input is a key, then
\* in every state of the run every variable that occurs in a body of the
\* grammar, helpers included, is a key.
C25_TotalityKept ==
    (pc # "build" /\ NoDangling(input)) => NoDangling(grammar)

C25_Witness ==
    /\ Done
    /\ NoDangling(input)
    /\ \E Z \in Keys(grammar) \ Keys(input) : Z \in VariablesIn(grammar)

\* C28: a forward-substitution round (i, j) changes at most A_i's production
\* set, eliminateLeftRecursion(A) changes at most A's set and adds at most
\* entries that were not keys, substituteUntilTerminal(V) changes at most V's
\* set; the ordering stays as computed.
C28_Frame ==
    [][ LET others(A) == \A k \in Keys(grammar) \ {A} :
                            k \in Keys(grammar') /\ grammar'[k] = grammar[k]
        IN  /\ (pc = "step3" /\ i <= m)
                 => (others(orderedVariables[i]) /\ orderedVariables' = orderedVariables)
            /\ (pc = "step3" /\ i <= m /\ j < i) => Keys(grammar') = Keys(grammar)
            /\ (pc \in {"step5", "step5z"})
                 => /\ \A V \in NextTarget : others(V)
                    /\ Keys(grammar') = Keys(grammar)
                    /\ orderedVariables' = orderedVariables ]_vars

\* The rounds and eliminations of forward substitution from (ii, jj) on, as
\* the specification orders them
RECURSIVE ForwardSchedule(_, _, _)
ForwardSchedule(ordered, ii, jj) ==
    IF ii > Len(ordered) THEN <<>>
    ELSE IF jj < ii
         THEN <<<<"round", ordered[ii], ordered[jj]>>>> \o ForwardSchedule(ordered, ii, jj + 1)
         ELSE <<<<"eliminate", ordered[ii]>>>> \o ForwardSchedule(ordered, ii + 1, 1)

\* Back substitution of the original variables, A_m down to A_1
BackSchedule(ordered) ==
    [k \in 1..Len(ordered) |-> <<"substitute", ordered[Len(ordered) - k + 1]>>]

\* C23: the steps a converter has made are, in this order: the ordering; for
\* i = 1..m the rounds (i,1)..(i,i-1) then the elimination of A_i; the back
\* substitution of A_m down to A_1; then the back substitution of helper
\* variables, each once, and of every one of them when run() has returned.
C23_StepOrder ==
    IF pc \in {"none", "build", "step2"} THEN log = <<>>
    ELSE LET fixed == <<<<"order">>>> \o ForwardSchedule(orderedVariables, 1, 1)
                         \o BackSchedule(orderedVariables)
             extra == SubSeq(log, Len(fixed) + 1, Len(log))
             helpers == Keys(grammar) \ Range(orderedVariables)
         IN  /\ Len(log) <= Len(fixed) => log = SubSeq(fixed, 1, Len(log))
             /\ Len(log) > Len(fixed) =>
                   /\ SubSeq(log, 1, Len(fixed)) = fixed
                   /\ \A n \in 1..Len(extra) :
                         /\ extra[n][1] = "substitute"
                         /\ extra[n][2] \in helpers
                         /\ \A n2 \in 1..Len(extra) : n2 # n => extra[n2] # extra[n]
             /\ Done => /\ Len(log) >= Len(fixed)
                        /\ { extra[n][2] : n \in 1..Len(extra) } = helpers

C23_Witness ==
    /\ Done
    /\ m = 3
    /\ Len(log) >= 10
    /\ log[Len(log)][2] \notin Range(orderedVariables)

C27_HeadAndTapeBounded ==
    /\ [](Len(tape) = Len(test) /\ (~Halted => (0 <= head /\ head <= Len(tape))))
    /\ [][ /\ head' - head \in {-1, 0, 1}
           /\ Len(tape') = Len(tape)
           /\ \A p \in 1..Len(tape) : tape'[p] # tape[p] => (p = head + 1 /\ head < Len(test))
         ]_vars

C27_Witness ==
    /\ currentState = "ACCEPT"
    /\ head = Len(test)
    /\ Len(test) >= 4
    /\ tape # test
    /\ \E p \in 1..Len(test) : test[p] \in {"Y", "Z"}

\* C29: on every input, over {a, b} or holding other characters, the loop of
\* the copy-language machine ends in ACCEPT or REJECT after finitely many
\* iterations, and an iteration that starts with the head outside 0..|input|
\* ends the loop in REJECT.
C29_CopyHalts ==
    /\ <>Halted
    /\ [][ (head < 0 \/ head > Len(tape)) => currentState' = "REJECT" ]_vars

C29_Witness ==
    /\ Halted
    /\ steps >= 10
    /\ \E p \in 1..Len(test) : test[p] \notin {"a", "b"}

=============================================================================
